---- MODULE Spec2Model ----
(***************************************************************************)
(* Model of validate_html.py: a linear script that reads one file, runs    *)
(* eight regular-expression checks on its text, prints a report and sets   *)
(* the exit status.                                                        *)
(*                                                                         *)
(* Text is a sequence of one-character strings.  The regular expressions   *)
(* of the source are kept as data (sequences of items) and matched by a    *)
(* backtracking matcher that yields the matches in the priority order of   *)
(* Python's re module, so that search, findall and finditer are computed   *)
(* as the library computes them.  The alphabet is ASCII: the non-ASCII     *)
(* case folds and whitespace of Python's Unicode patterns are not          *)
(* modelled.                                                               *)
(***************************************************************************)
EXTENDS Integers, Sequences, FiniteSets, TLC

VARIABLES
    kind,      \* what the target path names: "missing", "file" or "dir"
    file,      \* the bytes of the target file
    pc,        \* position of __main__
    results,   \* the list returned by run_checks
    amps,      \* the ampersand problems returned by run_checks
    out,       \* the lines written to standard output
    status,    \* the exit status of the process: <<>> while it runs, else <<n>>
    orig,      \* the file as the previous run read it (<<>> in a first run)
    prev       \* the results of the previous run (<<>> in a first run)

vars == <<kind, file, pc, results, amps, out, status, orig, prev>>

-----------------------------------------------------------------------------
(* Characters *)

Digits == {"0", "1", "2", "3", "4", "5", "6", "7", "8", "9"}

LowerSeq == <<"a", "b", "c", "d", "e", "f", "g", "h", "i", "j", "k", "l", "m",
              "n", "o", "p", "q", "r", "s", "t", "u", "v", "w", "x", "y", "z">>

UpperSeq == <<"A", "B", "C", "D", "E", "F", "G", "H", "I", "J", "K", "L", "M",
              "N", "O", "P", "Q", "R", "S", "T", "U", "V", "W", "X", "Y", "Z">>

LowerLetters == {LowerSeq[i] : i \in DOMAIN LowerSeq}

UpperLetters == {UpperSeq[i] : i \in DOMAIN UpperSeq}

Letters == LowerLetters \cup UpperLetters

HexDigits == Digits \cup {"a", "b", "c", "d", "e", "f", "A", "B", "C", "D", "E", "F"}

\* \s of the re module, ASCII part
Space == {" ", "\t", "\n", "\r", "\f"}

\* \w of the re module, ASCII part
WordChars == Letters \cup Digits \cup {"_"}

\* the line boundaries of str.splitlines(), ASCII part
LineBreaks == {"\n", "\r", "\f"}

Lower(c) ==
    IF c \in UpperLetters
    THEN LowerSeq[CHOOSE i \in DOMAIN UpperSeq : UpperSeq[i] = c]
    ELSE c

Upper(c) ==
    IF c \in LowerLetters
    THEN UpperSeq[CHOOSE i \in DOMAIN LowerSeq : LowerSeq[i] = c]
    ELSE c

\* an undecodable byte of the file, and the character errors='replace' puts
\* in its place (U+FFFD)
BadByte == "0xFF"

ReplacementChar == "U+FFFD"

-----------------------------------------------------------------------------
(* Regular expressions as data, and the matcher of the re module *)

Chr(c) == [t |-> "chr", c |-> c]

Lit(s) == [j \in 1..Len(s) |-> Chr(s[j])]

OneOf(cs) == [t |-> "set", cs |-> cs, neg |-> FALSE]

\* X* X+ X*? over a one-character class; min is 0 or 1
Rep(cs, neg, min, greedy) ==
    [t |-> "rep", cs |-> cs, neg |-> neg, min |-> min, greedy |-> greedy]

\* a group ( a1 | a2 | ... ); n is its capture number
Grp(n, alts) == [t |-> "grp", n |-> n, alts |-> alts]

BackRef(n) == [t |-> "ref", n |-> n]

WordBoundary == [t |-> "wb"]

NegLookahead(re) == [t |-> "nla", re |-> re]

NoGroups == << <<0, 0>>, <<0, 0>> >>

CharEq(a, b, ic) == a = b \/ (ic /\ Lower(a) = Lower(b))

InClass(ch, it, ic) ==
    LET hit == \/ ch \in it.cs
               \/ ic /\ (Lower(ch) \in it.cs \/ Upper(ch) \in it.cs)
    IN  IF it.neg THEN ~hit ELSE hit

IsWordAt(s, i) == i >= 1 /\ i <= Len(s) /\ s[i] \in WordChars

\* the length of the run of characters of the class of it that starts at i
RunLen(s, i, it, ic) ==
    LET stop == CHOOSE j \in i..(Len(s) + 1) :
                   /\ j = Len(s) + 1 \/ ~InClass(s[j], it, ic)
                   /\ \A k \in i..(j - 1) : InClass(s[k], it, ic)
    IN  stop - i

RECURSIVE Match(_, _, _, _, _, _)
RECURSIVE MatchReps(_, _, _, _, _, _, _, _)
RECURSIVE MatchAlts(_, _, _, _, _, _, _)
RECURSIVE MatchConts(_, _, _, _, _, _, _, _)
RECURSIVE MatchGroup(_, _, _, _, _, _)

\* Every way items k.. of re match s from position i, as [e: the position
\* after the match, g: the groups], in the order backtracking tries them.
Match(re, k, s, i, g, ic) ==
    IF k > Len(re) THEN << [e |-> i, g |-> g] >>
    ELSE LET it == re[k] IN
      CASE it.t = "chr" ->
             IF i <= Len(s) /\ CharEq(s[i], it.c, ic)
             THEN Match(re, k + 1, s, i + 1, g, ic) ELSE <<>>
        [] it.t = "set" ->
             IF i <= Len(s) /\ InClass(s[i], it, ic)
             THEN Match(re, k + 1, s, i + 1, g, ic) ELSE <<>>
        [] it.t = "rep" ->
             LET mx == RunLen(s, i, it, ic) IN
             IF mx < it.min THEN <<>>
             ELSE MatchReps(re, k, s, i, g, ic, it.min, mx)
        [] it.t = "grp" -> MatchAlts(re, k, s, i, g, ic, 1)
        [] it.t = "ref" ->
             LET txt == SubSeq(s, g[it.n][1], g[it.n][2] - 1)
                 n   == Len(txt)
             IN  IF /\ i + n - 1 <= Len(s)
                    /\ \A j \in 1..n : CharEq(s[i + j - 1], txt[j], ic)
                 THEN Match(re, k + 1, s, i + n, g, ic) ELSE <<>>
        [] it.t = "wb" ->
             IF IsWordAt(s, i - 1) # IsWordAt(s, i)
             THEN Match(re, k + 1, s, i, g, ic) ELSE <<>>
        [] it.t = "nla" ->
             IF Match(it.re, 1, s, i, g, ic) = <<>>
             THEN Match(re, k + 1, s, i, g, ic) ELSE <<>>

\* a repetition taking lo..hi characters, the counts in the order they are
\* tried: from hi down when greedy, from lo up when lazy
MatchReps(re, k, s, i, g, ic, lo, hi) ==
    IF lo > hi THEN <<>>
    ELSE IF lo = hi THEN Match(re, k + 1, s, i + lo, g, ic)
    ELSE LET mid == (lo + hi) \div 2 IN
         IF re[k].greedy
         THEN MatchReps(re, k, s, i, g, ic, mid + 1, hi) \o MatchReps(re, k, s, i, g, ic, lo, mid)
         ELSE MatchReps(re, k, s, i, g, ic, lo, mid) \o MatchReps(re, k, s, i, g, ic, mid + 1, hi)

\* the alternatives of a group from the a-th on
MatchAlts(re, k, s, i, g, ic, a) ==
    IF a > Len(re[k].alts) THEN <<>>
    ELSE MatchGroup(re, k, s, i, ic, Match(re[k].alts[a], 1, s, i, g, ic))
           \o MatchAlts(re, k, s, i, g, ic, a + 1)

\* the rest of re after each way rs[lo..hi] the group matched, in their order
MatchConts(re, k, s, i, ic, rs, lo, hi) ==
    IF lo > hi THEN <<>>
    ELSE IF lo = hi
         THEN Match(re, k + 1, s, rs[lo].e,
                    [rs[lo].g EXCEPT ![re[k].n] = <<i, rs[lo].e>>], ic)
    ELSE MatchConts(re, k, s, i, ic, rs, lo, (lo + hi) \div 2)
           \o MatchConts(re, k, s, i, ic, rs, (lo + hi) \div 2 + 1, hi)

MatchGroup(re, k, s, i, ic, rs) == MatchConts(re, k, s, i, ic, rs, 1, Len(rs))

\* the match object of the first way r the pattern matched from b
MatchObject(b, r) == [b |-> b, e |-> r[1].e, g |-> r[1].g]

\* of the attempts at[p] at every start p, the one at the leftmost start that
\* matched: <<>> for None, else << the match >>
Leftmost(at) ==
    LET starts == {p \in DOMAIN at : at[p] # <<>>}
    IN  IF starts = {} THEN <<>>
        ELSE LET b == CHOOSE p \in starts : \A q \in starts : p <= q
             IN  << MatchObject(b, at[b]) >>

\* re.search from position pos
SearchFrom(re, s, ic, pos) ==
    Leftmost([p \in pos..(Len(s) + 1) |-> Match(re, 1, s, p, NoGroups, ic)])

Search(re, s, ic) == SearchFrom(re, s, ic, 1)

\* re.finditer: the non-overlapping matches, left to right
RECURSIVE FindIter(_, _, _, _)
RECURSIVE FindNext(_, _, _, _)
FindIter(re, s, ic, pos) == FindNext(re, s, ic, SearchFrom(re, s, ic, pos))

\* the match m found, then the search goes on from its end, or one further
\* when it is empty
FindNext(re, s, ic, m) ==
    IF m = <<>> THEN <<>>
    ELSE m \o FindIter(re, s, ic, IF m[1].e > m[1].b THEN m[1].e ELSE m[1].e + 1)

GroupText(s, m, n) == SubSeq(s, m.g[n][1], m.g[n][2] - 1)

-----------------------------------------------------------------------------
(* The patterns of the source *)

NotGt == Rep({">"}, TRUE, 0, TRUE)

\* r'<!DOCTYPE\s+html', re.I
DoctypeRe ==
    Lit(<<"<", "!", "D", "O", "C", "T", "Y", "P", "E">>)
      \o << Rep(Space, FALSE, 1, TRUE) >> \o Lit(<<"h", "t", "m", "l">>)

\* the pattern without its \b
HtmlOpenRe_NoBoundary == Lit(<<"<", "h", "t", "m", "l">>)

\* r'<html\b', re.I
HtmlOpenRe == Lit(<<"<", "h", "t", "m", "l">>) \o << WordBoundary >>

\* r'</html>', re.I
HtmlCloseRe == Lit(<<"<", "/", "h", "t", "m", "l", ">">>)

\* r'<html[^>]*\blang\s*=\s*([\"\\\'])(.*?)\1', re.I: in the raw string the
\* class holds the three characters " \ '
LangRe ==
    Lit(<<"<", "h", "t", "m", "l">>) \o << NotGt, WordBoundary >>
      \o Lit(<<"l", "a", "n", "g">>)
      \o << Rep(Space, FALSE, 0, TRUE), Chr("="), Rep(Space, FALSE, 0, TRUE),
            Grp(1, << << OneOf({"\"", "\\", "'"}) >> >>),
            Grp(2, << << Rep({"\n"}, TRUE, 0, FALSE) >> >>),
            BackRef(1) >>

\* r'<head\b', re.I
HeadOpenRe == Lit(<<"<", "h", "e", "a", "d">>) \o << WordBoundary >>

\* r'</head>', re.I
HeadCloseRe == Lit(<<"<", "/", "h", "e", "a", "d", ">">>)

\* r'<body\b', re.I
BodyOpenRe == Lit(<<"<", "b", "o", "d", "y">>) \o << WordBoundary >>

\* r'</body>', re.I
BodyCloseRe == Lit(<<"<", "/", "b", "o", "d", "y", ">">>)

\* r'<head[\s\S]*?<title>.*?</title>', re.I: . is any character but "\n"
TitleRe ==
    Lit(<<"<", "h", "e", "a", "d">>) \o << Rep({}, TRUE, 0, FALSE) >>
      \o Lit(<<"<", "t", "i", "t", "l", "e", ">">>)
      \o << Rep({"\n"}, TRUE, 0, FALSE) >>
      \o Lit(<<"<", "/", "t", "i", "t", "l", "e", ">">>)

\* r'<link\s+([^>]+)>', re.I
LinkRe ==
    Lit(<<"<", "l", "i", "n", "k">>)
      \o << Rep(Space, FALSE, 1, TRUE),
            Grp(1, << << Rep({">"}, TRUE, 1, TRUE) >> >>),
            Chr(">") >>

\* rf'{name}\s*=\s*("[^"]*"|\'[^\']*\')', re.I
AttrRe(name) ==
    Lit(name)
      \o << Rep(Space, FALSE, 0, TRUE), Chr("="), Rep(Space, FALSE, 0, TRUE),
            Grp(1, << << Chr("\""), Rep({"\""}, TRUE, 0, TRUE), Chr("\"") >>,
                      << Chr("'"), Rep({"'"}, TRUE, 0, TRUE), Chr("'") >> >>) >>

\* r'&(?!(#[0-9]+|#x[0-9a-fA-F]+|[a-zA-Z]+);)', no flags
AmpRe ==
    << Chr("&"),
       NegLookahead(
         << Grp(1, << << Chr("#"), Rep(Digits, FALSE, 1, TRUE) >>,
                      << Chr("#"), Chr("x"), Rep(HexDigits, FALSE, 1, TRUE) >>,
                      << Rep(Letters, FALSE, 1, TRUE) >> >>),
            Chr(";") >>) >>

-----------------------------------------------------------------------------
(* The functions of the source *)

\* read_text(encoding='utf-8', errors='replace')
read(bytes) ==
    [i \in DOMAIN bytes |-> IF bytes[i] = BadByte THEN ReplacementChar ELSE bytes[i]]

\* the members of a set of numbers in increasing order
SortedSeq(S) ==
    [k \in 1..Cardinality(S) |-> CHOOSE p \in S : Cardinality({q \in S : q <= p}) = k]

\* str.splitlines(): "\r\n" is one boundary, no empty last line
splitlines(s) ==
    LET B == SortedSeq({p \in DOMAIN s :
                          /\ s[p] \in LineBreaks
                          /\ ~(s[p] = "\n" /\ p > 1 /\ s[p - 1] = "\r")})
        After(k) ==
            IF k = 0 THEN 1
            ELSE IF s[B[k]] = "\r" /\ B[k] < Len(s) /\ s[B[k] + 1] = "\n"
                 THEN B[k] + 2 ELSE B[k] + 1
    IN  [k \in 1..Len(B) |-> SubSeq(s, After(k - 1), B[k] - 1)]
          \o (IF After(Len(B)) <= Len(s)
              THEN << SubSeq(s, After(Len(B)), Len(s)) >> ELSE <<>>)

\* str.strip()
RECURSIVE strip(_)
strip(s) ==
    IF s = <<>> THEN s
    ELSE IF Head(s) \in Space THEN strip(Tail(s))
    ELSE IF s[Len(s)] \in Space THEN strip(SubSeq(s, 1, Len(s) - 1))
    ELSE s

\* re.findall with one group: the text of group 1 of every match
GroupTexts(s, ms, n) == [j \in 1..Len(ms) |-> GroupText(s, ms[j], n)]

find_links(content) == GroupTexts(content, FindIter(LinkRe, content, TRUE, 1), 1)

attr_has(attrs, name) == Search(AttrRe(name), attrs, TRUE) # <<>>

\* the body of the loop over the lines: the first match appends, then break
LineProblems(i, line) ==
    IF FindIter(AmpRe, line, FALSE, 1) # <<>> THEN << <<i, strip(line)>> >> ELSE <<>>

RECURSIVE AmpersandsFrom(_, _)
AmpersandsFrom(lines, i) ==
    IF i > Len(lines) THEN <<>>
    ELSE LineProblems(i, lines[i]) \o AmpersandsFrom(lines, i + 1)

\* enumerate(content.splitlines(), start=1)
check_unescaped_ampersands(content) == AmpersandsFrom(splitlines(content), 1)

Count(re, content) == Len(FindIter(re, content, TRUE, 1))

Result(desc, passed, msg) == [desc |-> desc, passed |-> passed, msg |-> msg]

RECURSIVE LinkProblemsFrom(_, _)
LinkProblemsFrom(links, j) ==
    IF j > Len(links) THEN <<>>
    ELSE (IF ~attr_has(links[j], <<"h", "r", "e", "f">>) \/ ~attr_has(links[j], <<"r", "e", "l">>)
          THEN << links[j] >> ELSE <<>>)
         \o LinkProblemsFrom(links, j + 1)

\* the list run_checks builds from what the checks found
Results(doctype, html_open, html_close, lang, head_open, head_close, body_open, body_close, title_in_head, link_problems, amps_) ==
    [results |->
       << Result("DOCTYPE declaration present",
                 doctype,
                 <<"Add <!DOCTYPE html> at top if missing.">>),
          Result("Single <html> open/close",
                 html_open = 1 /\ html_close = 1,
                 <<"Found <html> opens: ", html_open, ", closes: ", html_close, ".">>),
          Result("<html> has lang attribute",
                 lang,
                 <<"Add lang=\"en\" (or appropriate language) to the <html> tag for accessibility.">>),
          Result("<head> present and closed",
                 head_open /\ head_close,
                 <<"Ensure <head>...</head> exists and is properly closed.">>),
          Result("<body> present and single closed",
                 body_open = 1 /\ body_close = 1,
                 <<"Found <body> opens: ", body_open, ", closes: ", body_close, ".">>),
          Result("<title> present inside <head>",
                 title_in_head,
                 <<"Add a <title> inside <head> to improve accessibility and SEO.">>),
          Result("All <link> tags have href and rel",
                 Len(link_problems) = 0,
                 <<"Problematic <link> tags: ", Len(link_problems)>>),
          Result("No unescaped ampersands",
                 Len(amps_) = 0,
                 <<"Found ", Len(amps_), " line(s) with literal '&' that may need escaping.">>) >>,
     amps |-> amps_]

\* the checks on the text of the file
Checks(content) ==
    Results(Search(DoctypeRe, content, TRUE) # <<>>,
            Count(HtmlOpenRe, content),
            Count(HtmlCloseRe, content),
            Search(LangRe, content, TRUE) # <<>>,
            Search(HeadOpenRe, content, TRUE) # <<>>,
            Search(HeadCloseRe, content, TRUE) # <<>>,
            Count(BodyOpenRe, content),
            Count(BodyCloseRe, content),
            Search(TitleRe, content, TRUE) # <<>>,
            LinkProblemsFrom(find_links(content), 1),
            check_unescaped_ampersands(content))

run_checks(bytes) == Checks(read(bytes))

\* amps[:10]
MaxExamples == 10

TargetPath == "index.html"

\* the loop with ok_count += 1 moved out of the else branch
RECURSIVE ReportLoop_CountsAll(_, _, _, _)
ReportLoop_CountsAll(rs, i, lines, ok_count) ==
    IF i > Len(rs) THEN [lines |-> lines, ok_count |-> ok_count]
    ELSE IF rs[i].passed
         THEN ReportLoop_CountsAll(rs, i + 1, Append(lines, <<"PASS", ": ", rs[i].desc>>),
                                   ok_count + 1)
         ELSE ReportLoop_CountsAll(rs, i + 1,
                         lines \o << <<"FAIL", ": ", rs[i].desc>>, <<"  -> ", rs[i].msg>> >>,
                         ok_count + 1)

\* the lines of the loop over the results, with ok_count after them
RECURSIVE ReportLoop(_, _, _, _)
ReportLoop(rs, i, lines, ok_count) ==
    IF i > Len(rs) THEN [lines |-> lines, ok_count |-> ok_count]
    ELSE IF rs[i].passed
         THEN ReportLoop(rs, i + 1, Append(lines, <<"PASS", ": ", rs[i].desc>>), ok_count + 1)
         ELSE ReportLoop(rs, i + 1,
                         lines \o << <<"FAIL", ": ", rs[i].desc>>, <<"  -> ", rs[i].msg>> >>,
                         ok_count)

ExampleLines(as) ==
    LET n == IF Len(as) < MaxExamples THEN Len(as) ELSE MaxExamples
    IN  [j \in 1..n |-> <<"  Line ", as[j][1], ": ", as[j][2]>>]

print_report(path, rs, as) ==
    LET loop == ReportLoop(rs, 1, <<>>, 0)
    IN  << <<"Validating: ", path>> >>
          \o loop.lines
          \o << <<"Summary:">>, <<"  ", loop.ok_count, "/", Len(rs), " checks passed.">> >>
          \o (IF as # <<>>
              THEN << <<"Unescaped ampersand examples:">> >> \o ExampleLines(as)
              ELSE <<>>)
          \o << <<"Notes: This is a lightweight local checker, not a full W3C validation.">> >>

\* any() written for all()
all_pass_Any(rs) == \E i \in DOMAIN rs : rs[i].passed

\* all(passed for _, passed, _ in results)
all_pass(rs) == \A i \in DOMAIN rs : rs[i].passed

-----------------------------------------------------------------------------
(* __main__ *)

Running == <<>>

Exited(n) == << n >>

\* p.exists() is false: the message and exit status 2
MainNotFound ==
    /\ pc = "main"
    /\ kind = "missing"
    /\ out' = << <<"File not found: ", TargetPath>> >>
    /\ status' = Exited(2)
    /\ pc' = "exit"
    /\ UNCHANGED <<kind, file, results, amps, orig, prev>>

\* results, amps = run_checks(p)
Returned(r) == results' = r.results /\ amps' = r.amps

\* p.exists() is true and read_text succeeds: run_checks returns
MainRunChecks ==
    /\ pc = "main"
    /\ kind = "file"
    /\ Returned(run_checks(file))
    /\ pc' = "report"
    /\ UNCHANGED <<kind, file, out, status, orig, prev>>

\* p.exists() is true of a directory and read_text raises IsADirectoryError,
\* which nothing catches: the interpreter prints the traceback to standard
\* error and exits with status 1
MainReadRaises ==
    /\ pc = "main"
    /\ kind = "dir"
    /\ status' = Exited(1)
    /\ pc' = "exit"
    /\ UNCHANGED <<kind, file, results, amps, out, orig, prev>>

MainPrintReport ==
    /\ pc = "report"
    /\ out' = print_report(TargetPath, results, amps)
    /\ pc' = "reported"
    /\ UNCHANGED <<kind, file, results, amps, status, orig, prev>>

\* sys.exit(0 if all_pass else 1)
MainExit ==
    /\ pc = "reported"
    /\ status' = Exited(IF all_pass(results) THEN 0 ELSE 1)
    /\ pc' = "exit"
    /\ UNCHANGED <<kind, file, results, amps, out, orig, prev>>

Next ==
    \/ MainNotFound
    \/ MainRunChecks
    \/ MainReadRaises
    \/ MainPrintReport
    \/ MainExit

-----------------------------------------------------------------------------
(* Documents *)

RECURSIVE Flatten(_)
Flatten(q) == IF q = <<>> THEN <<>> ELSE Head(q) \o Flatten(Tail(q))

\* the texts made of at most n fragments of F
Texts(F, n) == UNION {{Flatten(q) : q \in [1..k -> F]} : k \in 0..n}

InitWith(docs) ==
    /\ kind \in {"missing", "file", "dir"}
    /\ file \in (IF kind = "file" THEN docs ELSE {<<>>})
    /\ pc = "main"
    /\ results = <<>>
    /\ amps = <<>>
    /\ out = <<>>
    /\ status = Running
    /\ orig = <<>>
    /\ prev = <<>>

\* whole documents and pieces of them
DoctypeDecl == <<"<", "!", "D", "O", "C", "T", "Y", "P", "E", " ", "h", "t", "m", "l", ">">>

HtmlHead ==
    <<"<", "h", "t", "m", "l", " ", "l", "a", "n", "g", "=", "\"", "e", "n", "\"", ">",
      "<", "h", "e", "a", "d", ">", "<", "t", "i", "t", "l", "e", ">", "T",
      "<", "/", "t", "i", "t", "l", "e", ">", "<", "/", "h", "e", "a", "d", ">">>

BodyTail ==
    <<"<", "b", "o", "d", "y", ">", "<", "/", "b", "o", "d", "y", ">",
      "<", "/", "h", "t", "m", "l", ">">>

LinkNoHref == <<"<", "l", "i", "n", "k", " ", "r", "e", "l", "=", "\"", "s", "\"", ">">>

\* the minimal valid document
MinimalDoc == DoctypeDecl \o HtmlHead \o BodyTail

Parts == {DoctypeDecl, HtmlHead, BodyTail, LinkNoHref, <<"&", "\n">>, <<BadByte>>}

MaxParts == 3

Init == InitWith(Texts(Parts, MaxParts))

Spec == Init /\ [][Next]_vars

-----------------------------------------------------------------------------
(* Properties *)

Ran == kind = "file" /\ pc \in {"report", "reported", "exit"}

Reported == kind = "file" /\ pc \in {"reported", "exit"}

Passed(n) == results[n].passed

StatusLines == SelectSeq(out, LAMBDA l : l[1] \in {"PASS", "FAIL"})

\* the line printed after 'Summary:'
SummaryLine == out[1 + CHOOSE k \in DOMAIN out : out[k] = <<"Summary:">>]

CheckOrder ==
    << "DOCTYPE declaration present", "Single <html> open/close",
       "<html> has lang attribute", "<head> present and closed",
       "<body> present and single closed", "<title> present inside <head>",
       "All <link> tags have href and rel", "No unescaped ampersands" >>

\* C1: the exit status is a function of the outcome: a missing path prints
\* only 'File not found: <path>', no report, and exits 2; an existing path
\* exits 0 exactly when all eight results passed and 1 exactly when some
\* result failed.
C1_ExitStatusByOutcome ==
    pc = "exit" =>
      /\ kind = "missing" =>
           /\ status = Exited(2)
           /\ out = << <<"File not found: ", TargetPath>> >>
           /\ results = <<>>
      /\ kind # "missing" =>
           /\ status = Exited(0) <=> (Len(results) = 8 /\ \A i \in 1..8 : Passed(i))
           /\ status = Exited(1) <=> (\E i \in DOMAIN results : ~Passed(i))

\* C2: a missing path is the only fatal condition: for every path that
\* exists, whatever it names, the run evaluates all rules and prints the
\* report before it exits, so exit status 1 means a printed report with a
\* failed check.
C2_OnlyMissingPathIsFatal ==
    (pc = "exit" /\ kind # "missing") =>
      /\ Len(results) = 8
      /\ Len(StatusLines) = 8
      /\ status = Exited(1) => \E i \in 1..8 : ~Passed(i)

\* C9: run_checks returns exactly eight results in the fixed order whatever
\* failed, print_report prints one PASS/FAIL line per result in that order,
\* and the summary is <passed>/<total> with total 8 and passed the number of
\* results that passed.
C9_EightResultsInOrder ==
    /\ Ran =>
         /\ Len(results) = 8
         /\ [i \in 1..8 |-> results[i].desc] = CheckOrder
    /\ Reported =>
         /\ StatusLines =
              [i \in 1..8 |-> <<IF Passed(i) THEN "PASS" ELSE "FAIL", ": ", CheckOrder[i]>>]
         /\ SummaryLine =
              <<"  ", Cardinality({i \in 1..8 : Passed(i)}), "/", 8, " checks passed.">>

\* the minimal valid document was reported as 8/8, after a document with
\* failed checks would have been reported too
C9_Witness ==
    /\ Reported
    /\ read(file) = MinimalDoc
    /\ SummaryLine = <<"  ", 8, "/", 8, " checks passed.">>
    /\ status = Exited(0)

-----------------------------------------------------------------------------
(* Unescaped ampersands *)

AmpFrags == {<<"&">>, <<"&", "#">>, <<"x">>, <<"X">>, <<"3">>, <<";">>, <<"a">>, <<"\n">>}

MaxAmpFrags == 4

InitAmp == InitWith(Texts(AmpFrags, MaxAmpFrags))

SpecAmp == InitAmp /\ [][Next]_vars

Lines == splitlines(read(file))

\* what may stand between & and ; in a character reference
IsReferenceBody(b) ==
    \/ Len(b) >= 2 /\ b[1] = "#" /\ \A j \in 2..Len(b) : b[j] \in Digits
    \/ Len(b) >= 3 /\ b[1] = "#" /\ b[2] \in {"x", "X"}
         /\ \A j \in 3..Len(b) : b[j] \in HexDigits
    \/ Len(b) >= 1 /\ \A j \in 1..Len(b) : b[j] \in Letters

ViolatingAt(line, i) ==
    /\ line[i] = "&"
    /\ ~\E j \in (i + 1)..Len(line) :
           line[j] = ";" /\ IsReferenceBody(SubSeq(line, i + 1, j - 1))

HasViolation(line) == \E i \in DOMAIN line : ViolatingAt(line, i)

ViolatingLines == {k \in DOMAIN Lines : HasViolation(Lines[k])}

\* C3: an & is a violation iff it is not followed by # digits ;, by #x or #X
\* hex digits ;, or by letters ;, and check 8 passes iff no line holds a
\* violating &.
C3_UnescapedAmpersandRule ==
    Ran => (Passed(8) <=> ViolatingLines = {})

ExampleLinesPrinted == SelectSeq(out, LAMBDA l : l[1] = "  Line ")

\* C10: the problem list has exactly one entry for each line with a violating
\* & and none for any other line, with 1-based line numbers in increasing
\* order, so it is no longer than the number of lines; the report prints the
\* first min(10, length) entries in that order.
C10_OneEntryPerViolatingLine ==
    /\ Ran =>
         /\ {amps[j][1] : j \in DOMAIN amps} = ViolatingLines
         /\ Len(amps) = Cardinality(ViolatingLines)
         /\ \A j \in 1..(Len(amps) - 1) : amps[j][1] < amps[j + 1][1]
         /\ \A j \in DOMAIN amps : amps[j][2] = strip(Lines[amps[j][1]])
         /\ Len(amps) <= Len(Lines)
    /\ Reported =>
         ExampleLinesPrinted =
           [j \in 1..(IF Len(amps) < 10 THEN Len(amps) ELSE 10) |->
              <<"  Line ", amps[j][1], ": ", amps[j][2]>>]

-----------------------------------------------------------------------------
(* The rules stated over positions of the text *)

\* a case-insensitive occurrence of the word w at position p of s
At(s, p, w) ==
    /\ p >= 1
    /\ p + Len(w) - 1 <= Len(s)
    /\ \A j \in 1..Len(w) : Lower(s[p + j - 1]) = Lower(w[j])

\* the position of the first > at or after p, Len(s) + 1 if there is none
RECURSIVE FirstGt(_, _)
FirstGt(s, p) == IF p > Len(s) \/ s[p] = ">" THEN p ELSE FirstGt(s, p + 1)

\* the position after the white space that starts at p
RECURSIVE SkipSpace(_, _)
SkipSpace(s, p) == IF p <= Len(s) /\ s[p] \in Space THEN SkipSpace(s, p + 1) ELSE p

\* name, then =, then a value opened at position v by a quote of Q and
\* closed by the same quote before position lim; name starts in from..(lim-1)
QuotedAssignment(s, name, from, lim, Q) ==
    \E a \in from..(lim - 1) :
       /\ At(s, a, name)
       /\ LET eq == SkipSpace(s, a + Len(name))
              v  == SkipSpace(s, eq + 1)
          IN  /\ eq < lim /\ s[eq] = "="
              /\ v < lim /\ s[v] \in Q
              /\ \E e \in (v + 1)..(lim - 1) : s[e] = s[v]

-----------------------------------------------------------------------------
(* Check 3: the lang attribute *)

LangFrags ==
    { <<"<", "h", "t", "m", "l", " ", "l", "a", "n", "g", "=">>,
      <<"<", "H", "T", "M", "L", " ", "L", "A", "N", "G", " ", "=">>,
      <<"\"">>, <<"'">>, <<"\\">>, <<"e", "n">>, <<">">> }

MaxLangFrags == 4

InitLang == InitWith(Texts(LangFrags, MaxLangFrags))

SpecLang == InitLang /\ [][Next]_vars

\* an <html tag whose attribute text holds lang, =, and a value opened
\* before the tag's > by a quote of Q and closed by the same quote
HasQuotedLang(s, Q) ==
    \E p \in DOMAIN s :
       /\ At(s, p, <<"<", "h", "t", "m", "l">>)
       /\ \E a \in (p + 5)..(FirstGt(s, p) - 1) :
            /\ At(s, a, <<"l", "a", "n", "g">>)
            /\ LET eq == SkipSpace(s, a + 4)
                   v  == SkipSpace(s, eq + 1)
               IN  /\ eq < FirstGt(s, p) /\ s[eq] = "="
                   /\ v < FirstGt(s, p) /\ s[v] \in Q
                   /\ \E e \in (v + 1)..Len(s) : s[e] = s[v]

\* C4: check 3 passes iff an <html ...> tag holds lang = and a value opened
\* and closed by the same quote character, a single or a double quote; a
\* value that is unquoted or delimited by any other character fails.
C4_LangNeedsQuotes ==
    Ran => (Passed(3) <=> HasQuotedLang(read(file), {"\"", "'"}))

-----------------------------------------------------------------------------
(* Check 6: the title *)

TitleFrags ==
    { <<"<", "h", "e", "a", "d", ">">>, <<"<", "H", "E", "A", "D">>,
      <<"<", "t", "i", "t", "l", "e", ">">>, <<"<", "/", "t", "i", "t", "l", "e", ">">>,
      <<"<", "/", "T", "I", "T", "L", "E", ">">>, <<"T">>, <<"\n">> }

MaxTitleFrags == 4

InitTitle == InitWith(Texts(TitleFrags, MaxTitleFrags))

SpecTitle == InitTitle /\ [][Next]_vars

\* <head, later <title>, and after it </title>
HasTitleAfterHead(s) ==
    \E q \in DOMAIN s :
       /\ At(s, q, <<"<", "t", "i", "t", "l", "e", ">">>)
       /\ \E p \in 1..(q - 5) : At(s, p, <<"<", "h", "e", "a", "d">>)
       /\ \E r \in (q + 7)..Len(s) : At(s, r, <<"<", "/", "t", "i", "t", "l", "e", ">">>)

\* C5: check 6 passes iff a case-insensitive <head is followed later in the
\* document, any text in between, by a <title> opening tag and after it a
\* </title> closing tag.
C5_TitleAfterHead ==
    Ran => (Passed(6) <=> HasTitleAfterHead(read(file)))

-----------------------------------------------------------------------------
(* Check 7: the link tags *)

LinkFrags ==
    { <<"<", "l", "i", "n", "k">>, <<"<", "L", "I", "N", "K", " ">>,
      <<" ">>, <<">">>,
      <<"r", "e", "l", "=", "\"", "s", "\"">>, <<"h", "r", "e", "f", "=", "'", "'">>,
      <<"h", "r", "e", "f", "=", "h">> }

MaxLinkFrags == 4

InitLink == InitWith(Texts(LinkFrags, MaxLinkFrags))

SpecLink == InitLink /\ [][Next]_vars

\* <link with the tag name ended by white space or by >, and closed by a >
LinkTagAt(s, p) ==
    /\ At(s, p, <<"<", "l", "i", "n", "k">>)
    /\ p + 5 <= Len(s)
    /\ s[p + 5] \in Space \cup {">"}
    /\ FirstGt(s, p) <= Len(s)

\* the link tags of s: those that do not lie inside an earlier one
LinkTags(s) ==
    {p \in DOMAIN s :
       /\ LinkTagAt(s, p)
       /\ ~\E o \in 1..(p - 1) : LinkTagAt(s, o) /\ FirstGt(s, o) > p}

\* the link tags that lack a quoted href or a quoted rel
ProblemLinkTags(s) ==
    {p \in LinkTags(s) :
       \/ ~QuotedAssignment(s, <<"h", "r", "e", "f">>, p + 5, FirstGt(s, p), {"\"", "'"})
       \/ ~QuotedAssignment(s, <<"r", "e", "l">>, p + 5, FirstGt(s, p), {"\"", "'"})}

\* C6: check 7 counts every <link ...> tag that lacks a quoted href or a
\* quoted rel, passes iff the count is zero, and reports the exact count as
\* 'Problematic <link> tags: <count>'.
C6_EveryLinkTagCounted ==
    Ran =>
      LET n == Cardinality(ProblemLinkTags(read(file)))
      IN  /\ Passed(7) <=> n = 0
          /\ results[7].msg = <<"Problematic <link> tags: ", n>>

-----------------------------------------------------------------------------
(* Checks 2 and 5: the tag counts *)

TagFrags ==
    { <<"<", "h", "t", "m", "l">>, <<"<", "H", "T", "M", "L">>,
      <<"<", "/", "h", "t", "m", "l", ">">>,
      <<"<", "b", "o", "d", "y">>, <<"<", "/", "B", "O", "D", "Y", ">">>,
      <<"x">>, <<">">> }

MaxTagFrags == 4

InitTags == InitWith(Texts(TagFrags, MaxTagFrags))

SpecTags == InitTags /\ [][Next]_vars

\* the case-insensitive occurrences of the word w in s
Occurrences(s, w) == {p \in DOMAIN s : At(s, p, w)}

\* those of them that no letter, digit or underscore follows
BoundedOccurrences(s, w) == {p \in Occurrences(s, w) : ~IsWordAt(s, p + Len(w))}

CountsMessage(tag, opens, closes) ==
    <<"Found " \o tag \o " opens: ", opens, ", closes: ", closes, ".">>

\* checks n (html) and m (body) decided and reported by these counts
TagChecksFollow(ho, hc, bo, bc) ==
    /\ Passed(2) <=> (ho = 1 /\ hc = 1)
    /\ results[2].msg = CountsMessage("<html>", ho, hc)
    /\ Passed(5) <=> (bo = 1 /\ bc = 1)
    /\ results[5].msg = CountsMessage("<body>", bo, bc)

\* C7 as stated: the open count is the number of case-insensitive
\* occurrences of the prefix <T, the close count the number of occurrences of
\* </T>, for T = html (check 2) and T = body (check 5); the check passes iff
\* both counts are 1 and the message reports both counts.
C7_PrefixCounts ==
    Ran =>
      LET s == read(file) IN
      TagChecksFollow(
        Cardinality(Occurrences(s, <<"<", "h", "t", "m", "l">>)),
        Cardinality(Occurrences(s, <<"<", "/", "h", "t", "m", "l", ">">>)),
        Cardinality(Occurrences(s, <<"<", "b", "o", "d", "y">>)),
        Cardinality(Occurrences(s, <<"<", "/", "b", "o", "d", "y", ">">>)))

\* C7 as amended: the open count is the number of case-insensitive
\* occurrences of <T that no letter, digit or underscore follows, the close
\* count the number of case-insensitive occurrences of </T>; the check passes
\* iff both counts are 1 and the message reports both counts.
C7_TagCounts ==
    Ran =>
      LET s == read(file) IN
      TagChecksFollow(
        Cardinality(BoundedOccurrences(s, <<"<", "h", "t", "m", "l">>)),
        Cardinality(Occurrences(s, <<"<", "/", "h", "t", "m", "l", ">">>)),
        Cardinality(BoundedOccurrences(s, <<"<", "b", "o", "d", "y">>)),
        Cardinality(Occurrences(s, <<"<", "/", "b", "o", "d", "y", ">">>)))

\* two <html tags were reported as opens: 2 and failed check 2, in a text
\* that also holds an <html followed by a letter, which was not counted
C7_Witness ==
    /\ Ran
    /\ ~Passed(2)
    /\ results[2].msg[2] = 2
    /\ Cardinality(Occurrences(read(file), <<"<", "h", "t", "m", "l">>)) = 3

-----------------------------------------------------------------------------
(* A second run on the file without its doctype line *)

\* the lines of a text file, each ended by "\n"
FileLines(s) ==
    LET B == SortedSeq({p \in DOMAIN s : s[p] = "\n"})
        After(k) == IF k = 0 THEN 1 ELSE B[k] + 1
    IN  [k \in 1..Len(B) |-> SubSeq(s, After(k - 1), B[k] - 1)]
          \o (IF After(Len(B)) <= Len(s)
              THEN << SubSeq(s, After(Len(B)), Len(s)) >> ELSE <<>>)

RECURSIVE JoinLines(_)
JoinLines(ls) == IF ls = <<>> THEN <<>> ELSE Head(ls) \o <<"\n">> \o JoinLines(Tail(ls))

WithoutLine(s, k) ==
    LET ls == FileLines(s)
    IN  JoinLines(SubSeq(ls, 1, k - 1) \o SubSeq(ls, k + 1, Len(ls)))

\* After a run on a file, a line that holds a doctype declaration is deleted
\* from the file and the program is started again on the same path.
RerunWithoutDoctypeLine ==
    /\ pc = "exit"
    /\ kind = "file"
    /\ orig = <<>>
    /\ \E k \in DOMAIN FileLines(file) :
         /\ Search(DoctypeRe, FileLines(file)[k], TRUE) # <<>>
         /\ file' = WithoutLine(file, k)
    /\ orig' = file
    /\ prev' = results
    /\ pc' = "main"
    /\ results' = <<>>
    /\ amps' = <<>>
    /\ out' = <<>>
    /\ status' = Running
    /\ UNCHANGED kind

NextRerun ==
    \/ Next
    \/ RerunWithoutDoctypeLine

DoctypeWord == <<"<", "!", "D", "O", "C", "T", "Y", "P", "E">>

LinkOpenEnded ==
    <<"<", "l", "i", "n", "k", " ", "r", "e", "l", "=", "\"", "s", "\"", " ",
      "h", "r", "e", "f", "=", "\"", "h", "\"">>

\* the lines that may stand before the rest of the document
DocLines ==
    { DoctypeWord \o <<"\n">>,
      DoctypeDecl \o <<"\n">>,
      <<"h", "t", "m", "l", "\n">>,
      LinkOpenEnded \o <<"\n">> }

MaxLines == 3

InitDoctype ==
    InitWith({t \o HtmlHead \o BodyTail \o <<"\n">> : t \in Texts(DocLines, MaxLines)})

SpecDoctype == InitDoctype /\ [][NextRerun]_vars

\* the line is a declaration <!DOCTYPE html> and nothing else
IsDeclarationLine(l) ==
    /\ At(l, 1, DoctypeWord)
    /\ LET h == SkipSpace(l, Len(DoctypeWord) + 1)
       IN  /\ h > Len(DoctypeWord) + 1
           /\ At(l, h, <<"h", "t", "m", "l">>)
           /\ SkipSpace(l, h + 4) = Len(l)
           /\ l[Len(l)] = ">"

\* the one declaration that check 1 finds in s is a line of its own
OnlyDeclarationOnOwnLine(s) ==
    LET ms == FindIter(DoctypeRe, s, TRUE, 1)
        ls == FileLines(s)
    IN  /\ Len(ms) = 1
        /\ Cardinality({k \in DOMAIN ls : IsDeclarationLine(ls[k])}) = 1

\* the one <!DOCTYPE of s starts a declaration that is a line of its own
OnlyDoctypeWordOnOwnLine(s) ==
    LET ls == FileLines(s)
    IN  /\ Cardinality(Occurrences(s, DoctypeWord)) = 1
        /\ \E k \in DOMAIN ls : IsDeclarationLine(ls[k])

AllPassedBefore == Len(prev) = 8 /\ \A i \in 1..8 : prev[i].passed

\* only check 1 changed, so the run exits 1 after a summary of 7/8
OnlyDoctypeFlipped ==
    /\ ~Passed(1)
    /\ \A i \in 2..8 : Passed(i) = prev[i].passed
    /\ Reported => SummaryLine = <<"  ", 7, "/", 8, " checks passed.">>
    /\ pc = "exit" => status = Exited(1)

\* C8 as stated: when all eight checks pass on a document whose only doctype
\* declaration stands on a line of its own, deleting that line makes check 1
\* fail and leaves checks 2 to 8 as they were; the run exits 1 after 7/8.
C8_DoctypeRemovalFlipsOnlyCheck1 ==
    (Ran /\ AllPassedBefore /\ OnlyDeclarationOnOwnLine(orig)) => OnlyDoctypeFlipped

\* C8 as amended: the same for a document whose only occurrence of <!DOCTYPE
\* is the declaration <!DOCTYPE html> standing on a line of its own.
C8_SoleDoctypeRemovalFlipsOnlyCheck1 ==
    (Ran /\ AllPassedBefore /\ OnlyDoctypeWordOnOwnLine(orig)) => OnlyDoctypeFlipped

\* the second run ended with status 1 on a document that had passed all
\* eight checks with its one doctype line, which a link tag ran across
C8_Witness ==
    /\ pc = "exit"
    /\ AllPassedBefore
    /\ OnlyDoctypeWordOnOwnLine(orig)
    /\ Occurrences(orig, <<"<", "l", "i", "n", "k">>) # {}
    /\ status = Exited(1)

====
